---- MODULE Spec2Model ----
(***************************************************************************)
(* A model of the HubSpot integration of VectorShift                       *)
(* (backend/integrations/hubspot.py, backend/api/integrations.py):        *)
(* the OAuth state / credential lifecycle over the Redis store, the       *)
(* token refresh, the cursor pagination loop and the per-type item        *)
(* listing.                                                               *)
(*                                                                         *)
(* Every Redis command and every HTTP call of a handler is one step of    *)
(* that handler; the clock and Redis' key expiry move between steps.      *)
(***************************************************************************)
EXTENDS Integers, Sequences, FiniteSets, TLC

(***************************************************************************)
(* Bounds of the model.                                                    *)
(***************************************************************************)
\* authorize_hubspot calls that get as far as issuing a state token
MaxStates == 1
\* token pairs the provider's token endpoint issues (exchange or refresh)
MaxIssued == 3
\* clock advances
MaxTicks == 2
\* the largest max_pages _fetch_all_objects is called with on its own
MaxPagesArg == 3
\* objects in one page of the object-listing endpoint
MaxBatch == 2
\* objects of one type in the account that get_items_hubspot lists
MaxObjs == 2
\* successful refreshes of one record, one call after the other
MaxRefreshes == 2

(***************************************************************************)
(* Program constants.                                                      *)
(***************************************************************************)
STATE_TTL_SECONDS == 300
CRED_TTL_SECONDS == 30 * 24 * 3600
\* the 60 of "now < (expires_at - 60)"
REFRESH_MARGIN == 60
\* the default of _fetch_all_objects' max_pages
DEFAULT_MAX_PAGES == 20

\* Python's None, a missing query parameter, a key a dict does not hold.
\* Identifiers, tokens and codes are positive integers, so 0 is also the one
\* falsy value of each of them, as None and "" are in the code's tests
\* (if error, if not code, if user_id, if not refresh_token, ...).
None == 0

\* The user ids the identity layer may put in request.state.user.
Owners == {1}

\* A state value that _make_state never returned (a forged or mistyped state).
ForgedState == MaxStates + 1

\* The expires_in of the provider's token responses in the OAuth flow (HubSpot
\* answers 1800); the refresh decision is also checked on its own, over more values.
ExpiresIn == {1800}

\* The clock advances by one second less than the state TTL, or by the rest of
\* the credential TTL: a state record outlives one short advance and not two, and
\* a short and a long advance together are exactly the credential TTL.
Deltas == {STATE_TTL_SECONDS - 1, CRED_TTL_SECONDS - STATE_TTL_SECONDS + 1}

\* The worker processes that run handlers.
Procs == {1, 2}

VARIABLES
    now,                \* time.time(), in seconds
    ticks,              \* clock advances so far
    HUBSPOT_CLIENT_ID,  \* the configured client id, or None
    stateStore,         \* Redis keys hubspot:state:<state>  -> [val, exp]
    credStore,          \* Redis keys user:<id>:hubspot_creds and hubspot:creds:<state> -> [val, exp]
    issuedCount,        \* token pairs issued by the provider so far
    h,                  \* per process: the running (or last finished) handler's frame
    hist,               \* per issued state token: for whom, and what became of it
    rf,                 \* a call of _refresh_access_token_if_needed on its own
    fa,                 \* a call of _fetch_all_objects on its own
    li                  \* a call of get_items_hubspot

flowVars == <<now, ticks, HUBSPOT_CLIENT_ID, stateStore, credStore, issuedCount, h, hist>>

vars == <<flowVars, rf, fa, li>>

(***************************************************************************)
(* The Redis store: a key exists until it is deleted or its TTL elapses.   *)
(***************************************************************************)
\* r.exists(key)
_redis_exists(store, key) == key \in DOMAIN store

\* r.setex(key, ttl, json.dumps(value)) at time t: a full overwrite, TTL restarted
_redis_setex(store, key, value, ttl, t) ==
    [k \in DOMAIN store \cup {key} |->
        IF k = key THEN [val |-> value, exp |-> t + ttl] ELSE store[k]]

\* json.loads(r.get(key)) if the key exists, else the empty dict
_redis_get(store, key, emptyDict) ==
    IF key \in DOMAIN store THEN store[key].val ELSE emptyDict

\* r.delete(key)
_redis_delete(store, key) == [k \in DOMAIN store \ {key} |-> store[k]]

\* Redis drops every key whose TTL has elapsed at time t
ExpireKeys(store, t) == [k \in {x \in DOMAIN store : store[x].exp > t} |-> store[k]]

EmptyStore == [k \in {} |-> None]

(***************************************************************************)
(* Values.                                                                 *)
(***************************************************************************)
\* {} read through .get(): every field missing
EmptyMeta == [created_at |-> None, user_id |-> None]

EmptyTokenData == [access_token |-> None, refresh_token |-> None, expires_in |-> None]

\* {} read through .get(): expires_at defaults to 0, the tokens to None
EmptyDict == [access_token |-> None, refresh_token |-> None, expires_at |-> 0,
              raw |-> EmptyTokenData]

\* f"user:{user_id}:hubspot_creds" and f"hubspot:creds:{state}"
UserKey(user_id) == <<"user", user_id>>

FlowKey(state) == <<"flow", state>>

NoKey == <<"none", None>>

\* A handler's frame: its position, its locals, and what it answered.
\*   wf: the call was well formed (a callback with a code, a state and no error;
\*       a credential lookup with an identifier)
\*   st: what had become of the callback's state token when it was validated
\*   found, due: a credential lookup found a record stored under its key; it was
\*       made for a flow that completed less than the credential TTL ago
\*   posts, writes: the handler's calls of the token endpoint and its Redis writes
IdleFrame ==
    [op |-> "none", pc |-> "idle", out |-> "none",
     state |-> None, key |-> NoKey, state_meta |-> EmptyMeta, stored |-> EmptyDict,
     posts |-> 0, writes |-> 0,
     wf |-> FALSE, st |-> "none", found |-> FALSE, due |-> FALSE]

\* The token endpoint's answers: a refusal, or a fresh token pair. The n-th pair
\* issued carries access token n; the refresh token and expires_in may be left out.
TokenResponsesOver(n, expires_in) ==
    {[status_code |-> 400, token_data |-> EmptyTokenData]} \cup
    {[status_code |-> 200,
      token_data |-> [access_token |-> n, refresh_token |-> rt, expires_in |-> e]] :
        rt \in {None, n}, e \in expires_in}

TokenResponses(n) == TokenResponsesOver(n, ExpiresIn)

(***************************************************************************)
(* History of the state tokens (not program state): for whom each was      *)
(* issued and what became of it.                                           *)
(*   live -> expired (its TTL elapsed) | consumed (a callback deleted it)  *)
(*   completed: a callback carrying it has stored credentials              *)
(***************************************************************************)
Issued == DOMAIN hist

\* what has become of a state token: never issued, live, expired, consumed, or
\* completed
StatusOf(state) ==
    IF state \notin Issued THEN "never"
    ELSE IF hist[state].completed THEN "completed"
    ELSE hist[state].status

\* the flows that completed less than the credential TTL ago
Fresh == {s \in Issued : hist[s].completed /\ now < hist[s].done_at + CRED_TTL_SECONDS}

\* the identifier is that of such a flow: its owner when it was started with
\* one, else its state token as flow id
DueFor(user_id, state_key) ==
    \E s \in Fresh :
        IF hist[s].owner # None
        THEN user_id = hist[s].owner
        ELSE user_id = None /\ state_key = s

(***************************************************************************)
(* authorize_hubspot                                                       *)
(***************************************************************************)
\* str(uuid.uuid4()): a value no earlier call returned
_make_state == Cardinality(Issued) + 1

authorize_hubspot(p, user_id) ==
    /\ h[p].pc = "idle"
    /\ Cardinality(Issued) < MaxStates
    /\ IF HUBSPOT_CLIENT_ID = None
       THEN /\ h' = [h EXCEPT ![p] = [IdleFrame EXCEPT !.op = "authorize",
                                        !.out = "ConfigurationError"]]
            /\ UNCHANGED <<stateStore, hist>>
       ELSE LET state == _make_state IN
            /\ stateStore' = _redis_setex(stateStore, state,
                                 [created_at |-> now, user_id |-> user_id],
                                 STATE_TTL_SECONDS, now)
            /\ hist' = [s \in Issued \cup {state} |->
                          IF s = state
                          THEN [owner |-> user_id, status |-> "live",
                                completed |-> FALSE, done_at |-> 0]
                          ELSE hist[s]]
            /\ h' = [h EXCEPT ![p] = [IdleFrame EXCEPT !.op = "authorize",
                                        !.state = state, !.writes = 1, !.out = "ok"]]
    /\ UNCHANGED <<now, ticks, HUBSPOT_CLIENT_ID, credStore, issuedCount>>

(***************************************************************************)
(* oauth2callback_hubspot                                                  *)
(***************************************************************************)
\* mutant: the state is not looked up
CallbackCheck_NoLookup(code, state, error) ==
    IF error # None THEN "ProviderDenied"
    ELSE IF code = None \/ state = None THEN "InvalidRequest"
    ELSE "pending"

\* mutant: code and state are tested before the error parameter
CallbackCheck_MissingFirst(code, state, error) ==
    IF code = None \/ state = None THEN "InvalidRequest"
    ELSE IF error # None THEN "ProviderDenied"
    ELSE IF ~_redis_exists(stateStore, state) THEN "InvalidState"
    ELSE "pending"

\* lines 111-121: which check, if any, rejects the callback
CallbackCheck(code, state, error) ==
    IF error # None THEN "ProviderDenied"
    ELSE IF code = None \/ state = None THEN "InvalidRequest"
    ELSE IF ~_redis_exists(stateStore, state) THEN "InvalidState"
    ELSE "pending"

\* lines 106-121: the parameter checks and r.exists(state_key)
CallbackValidate(p, code, state, error) ==
    /\ h[p].pc = "idle"
    /\ LET out == CallbackCheck(code, state, error)
           f == [IdleFrame EXCEPT !.op = "callback", !.out = out,
                                 !.wf = (error = None /\ code # None /\ state # None),
                                 !.st = StatusOf(state)]
       IN h' = [h EXCEPT ![p] =
                  IF out = "pending"
                  THEN [f EXCEPT !.pc = "cb_get", !.state = state]
                  ELSE f]
    /\ UNCHANGED <<now, ticks, HUBSPOT_CLIENT_ID, stateStore, credStore, issuedCount, hist>>

\* line 123: state_meta = _redis_get(state_key)
CallbackGet(p) ==
    /\ h[p].pc = "cb_get"
    /\ h' = [h EXCEPT ![p].state_meta = _redis_get(stateStore, h[p].state, EmptyMeta),
                      ![p].pc = "cb_delete"]
    /\ UNCHANGED <<now, ticks, HUBSPOT_CLIENT_ID, stateStore, credStore, issuedCount, hist>>

\* mutant: the state record is left in the store
CallbackDelete_Kept(p) ==
    /\ h[p].pc = "cb_delete"
    /\ hist' = [hist EXCEPT ![h[p].state].status = "consumed"]
    /\ h' = [h EXCEPT ![p].pc = "cb_post"]
    /\ UNCHANGED <<now, ticks, HUBSPOT_CLIENT_ID, stateStore, credStore, issuedCount>>

\* line 124: r.delete(state_key)
CallbackDelete(p) ==
    /\ h[p].pc = "cb_delete"
    /\ stateStore' = _redis_delete(stateStore, h[p].state)
    /\ hist' = [hist EXCEPT ![h[p].state].status = "consumed"]
    /\ h' = [h EXCEPT ![p].pc = "cb_post"]
    /\ UNCHANGED <<now, ticks, HUBSPOT_CLIENT_ID, credStore, issuedCount>>

\* lines 141-146
ToStore(token_data, t) ==
    [access_token |-> token_data.access_token,
     refresh_token |-> token_data.refresh_token,
     expires_at |-> t + token_data.expires_in,
     raw |-> token_data]

\* lines 127-146: the token exchange and to_store
CallbackExchange(p) ==
    /\ h[p].pc = "cb_post"
    /\ \E resp \in TokenResponses(issuedCount + 1) :
         IF resp.status_code # 200
         THEN /\ h' = [h EXCEPT ![p].out = "TokenExchange", ![p].pc = "idle",
                                ![p].state_meta = EmptyMeta, ![p].posts = @ + 1]
              /\ UNCHANGED issuedCount
         ELSE /\ issuedCount < MaxIssued
              /\ issuedCount' = issuedCount + 1
              /\ h' = [h EXCEPT ![p].stored = ToStore(resp.token_data, now),
                                ![p].posts = @ + 1, ![p].pc = "cb_store"]
    /\ UNCHANGED <<now, ticks, HUBSPOT_CLIENT_ID, stateStore, credStore, hist>>

\* lines 149-153
CredKeyOfCallback(state_meta, state) ==
    IF state_meta.user_id # None THEN UserKey(state_meta.user_id) ELSE FlowKey(state)

\* lines 148-160: the credential write and the redirect carrying the state
CallbackStore(p) ==
    /\ h[p].pc = "cb_store"
    /\ LET cred_key == CredKeyOfCallback(h[p].state_meta, h[p].state) IN
       /\ credStore' = _redis_setex(credStore, cred_key, h[p].stored, CRED_TTL_SECONDS, now)
       /\ h' = [h EXCEPT ![p].key = cred_key, ![p].writes = @ + 1,
                         ![p].state_meta = EmptyMeta,
                         ![p].out = "ok", ![p].pc = "idle"]
    /\ hist' = [hist EXCEPT ![h[p].state].completed = TRUE,
                             ![h[p].state].done_at = now]
    /\ UNCHANGED <<now, ticks, HUBSPOT_CLIENT_ID, stateStore, issuedCount>>

oauth2callback_hubspot(p) ==
    \/ \E code \in {None, 1}, state \in {None, ForgedState} \cup Issued, error \in {None, 1} :
         CallbackValidate(p, code, state, error)
    \/ CallbackGet(p)
    \/ CallbackDelete(p)
    \/ CallbackExchange(p)
    \/ CallbackStore(p)

(***************************************************************************)
(* _refresh_access_token_if_needed                                         *)
(***************************************************************************)
\* mutant: the margin is a second too wide
StillValid_Wider(stored, t) == t < stored.expires_at - REFRESH_MARGIN - 1

\* line 172: now < (expires_at - 60), the record is still valid
StillValid(stored, t) == t < stored.expires_at - REFRESH_MARGIN

\* mutant: expires_at is not written
Refreshed_OldExpiry(stored, token_data, t) ==
    [stored EXCEPT !.access_token = token_data.access_token,
                   !.refresh_token = IF token_data.refresh_token # None
                                     THEN token_data.refresh_token ELSE @]

\* mutant: the access token is not written
Refreshed_OldToken(stored, token_data, t) ==
    [stored EXCEPT !.refresh_token = IF token_data.refresh_token # None
                                     THEN token_data.refresh_token ELSE @,
                   !.expires_at = t + token_data.expires_in]

\* mutant: a response's refresh token is never taken
Refreshed_OldRefreshToken(stored, token_data, t) ==
    [stored EXCEPT !.access_token = token_data.access_token,
                   !.expires_at = t + token_data.expires_in]

\* lines 192-197: the record after a successful refresh answered at time t
Refreshed(stored, token_data, t) ==
    [stored EXCEPT !.access_token = token_data.access_token,
                   !.refresh_token = IF token_data.refresh_token # None
                                     THEN token_data.refresh_token ELSE @,
                   !.expires_at = t + token_data.expires_in]

\* lines 170-178: what the function does before any call of the provider
RefreshCheck(stored, t) ==
    IF StillValid(stored, t) THEN "valid"
    ELSE IF stored.refresh_token = None THEN "NoRefreshToken"
    ELSE "refresh"

\* The function called on its own, as its test calls it.
\*   before, t0: the record passed and the time of the expiry check
\*   token_data, t1: the provider's answer and the time it is read
\*   first: the record the first call was passed
\*   carried: the refresh token of every successful refresh response so far,
\*            None for a response that carried none
RefreshIdle ==
    [pc |-> "call", stored |-> EmptyDict, before |-> EmptyDict, t0 |-> 0, t1 |-> 0,
     token_data |-> EmptyTokenData, out |-> "none", posts |-> 0,
     first |-> EmptyDict, carried |-> <<>>]

\* lines 170-178
RefreshCall ==
    /\ rf.pc = "call"
    /\ LET check == RefreshCheck(rf.stored, now) IN
       rf' = [rf EXCEPT !.t0 = now,
                        !.pc = IF check = "refresh" THEN "post" ELSE "done",
                        !.out = IF check = "valid" THEN "ok"
                                ELSE IF check = "refresh" THEN "pending" ELSE check]
    /\ UNCHANGED <<flowVars, fa, li>>

\* The expires_in values a refresh response may carry (None: it carries none).
RefreshExpiresIn == {None, 30, REFRESH_MARGIN - 1, REFRESH_MARGIN, REFRESH_MARGIN + 1, 1800}

\* lines 180-197: the refresh grant, answered at once or a second later
RefreshAnswer ==
    /\ rf.pc = "post"
    /\ \E resp \in TokenResponsesOver(Len(rf.carried) + 2, RefreshExpiresIn), dt \in {0, 1} :
         /\ now' = now + dt
         /\ resp.status_code = 200 => Len(rf.carried) < MaxRefreshes
         /\ rf' = IF resp.status_code # 200
                  THEN [rf EXCEPT !.pc = "done", !.out = "TokenRefresh",
                                  !.posts = @ + 1, !.t1 = now + dt]
                  ELSE [rf EXCEPT !.pc = "done", !.out = "ok", !.posts = @ + 1,
                                  !.t1 = now + dt, !.token_data = resp.token_data,
                                  !.stored = Refreshed(rf.stored, resp.token_data, now + dt),
                                  !.carried = Append(@, resp.token_data.refresh_token)]
    /\ UNCHANGED <<ticks, HUBSPOT_CLIENT_ID, stateStore, credStore, issuedCount, h, hist, fa, li>>

\* lines 214-215: the next lookup passes the record the last call returned
RefreshAgain ==
    /\ rf.pc = "done"
    /\ rf.out = "ok"
    /\ rf.carried # <<>>
    /\ rf' = [RefreshIdle EXCEPT !.stored = rf.stored, !.before = rf.stored,
                                 !.first = rf.first, !.carried = rf.carried]
    /\ UNCHANGED <<flowVars, fa, li>>

_refresh_access_token_if_needed == RefreshCall \/ RefreshAnswer \/ RefreshAgain

(***************************************************************************)
(* get_hubspot_credentials_for_user                                        *)
(***************************************************************************)
\* lines 204-209
CredKeyOfIdentifier(user_id, state_key) ==
    IF user_id # None THEN UserKey(user_id)
    ELSE IF state_key # None THEN FlowKey(state_key)
    ELSE NoKey

\* mutant: the key is not looked up
ResolveCheck_NoLookup(user_id, state_key) ==
    IF CredKeyOfIdentifier(user_id, state_key) = NoKey THEN "IdentifierRequired"
    ELSE "pending"

\* lines 204-212: the key, and r.exists(key)
ResolveCheck(user_id, state_key) ==
    IF CredKeyOfIdentifier(user_id, state_key) = NoKey THEN "IdentifierRequired"
    ELSE IF ~_redis_exists(credStore, CredKeyOfIdentifier(user_id, state_key))
         THEN "NotFound"
    ELSE "pending"

ResolveStart(p, user_id, state_key) ==
    /\ h[p].pc = "idle"
    /\ LET out == ResolveCheck(user_id, state_key)
           f == [IdleFrame EXCEPT !.op = "resolve", !.out = out,
                                 !.key = CredKeyOfIdentifier(user_id, state_key),
                                 !.wf = (user_id # None \/ state_key # None),
                                 !.found = \E k \in DOMAIN credStore :
                                              \/ user_id # None /\ k = UserKey(user_id)
                                              \/ user_id = None /\ state_key # None
                                                 /\ k = FlowKey(state_key),
                                 !.due = DueFor(user_id, state_key)]
       IN h' = [h EXCEPT ![p] = IF out = "pending" THEN [f EXCEPT !.pc = "rs_get"] ELSE f]
    /\ UNCHANGED <<now, ticks, HUBSPOT_CLIENT_ID, stateStore, credStore, issuedCount, hist>>

\* lines 214-215, 170-178: stored = _redis_get(key), and the refresh decision
ResolveGet(p) ==
    /\ h[p].pc = "rs_get"
    /\ LET stored == _redis_get(credStore, h[p].key, EmptyDict)
           check == RefreshCheck(stored, now)
       IN h' = [h EXCEPT ![p] =
                  IF check = "NoRefreshToken"
                  THEN [h[p] EXCEPT !.out = "NoRefreshToken", !.pc = "idle"]
                  ELSE [h[p] EXCEPT !.stored = stored,
                                    !.pc = IF check = "valid" THEN "rs_store" ELSE "rs_post"]]
    /\ UNCHANGED <<now, ticks, HUBSPOT_CLIENT_ID, stateStore, credStore, issuedCount, hist>>

\* lines 180-197: the refresh grant
ResolveRefresh(p) ==
    /\ h[p].pc = "rs_post"
    /\ \E resp \in TokenResponses(issuedCount + 1) :
         IF resp.status_code # 200
         THEN /\ h' = [h EXCEPT ![p].out = "TokenRefresh", ![p].pc = "idle",
                                ![p].stored = EmptyDict, ![p].posts = @ + 1]
              /\ UNCHANGED issuedCount
         ELSE /\ issuedCount < MaxIssued
              /\ issuedCount' = issuedCount + 1
              /\ h' = [h EXCEPT ![p].stored = Refreshed(h[p].stored, resp.token_data, now),
                                ![p].posts = @ + 1, ![p].pc = "rs_store"]
    /\ UNCHANGED <<now, ticks, HUBSPOT_CLIENT_ID, stateStore, credStore, hist>>

\* mutant: the record is written back with the TTL it had left
ResolveStore_KeepTTL(p) ==
    /\ h[p].pc = "rs_store"
    /\ credStore' = _redis_setex(credStore, h[p].key, h[p].stored,
                                 IF h[p].key \in DOMAIN credStore
                                 THEN credStore[h[p].key].exp - now
                                 ELSE CRED_TTL_SECONDS, now)
    /\ h' = [h EXCEPT ![p].writes = @ + 1, ![p].out = "ok", ![p].pc = "idle"]
    /\ UNCHANGED <<now, ticks, HUBSPOT_CLIENT_ID, stateStore, issuedCount, hist>>

\* lines 216-217: the record is written back, its TTL restarted, and returned
ResolveStore(p) ==
    /\ h[p].pc = "rs_store"
    /\ credStore' = _redis_setex(credStore, h[p].key, h[p].stored, CRED_TTL_SECONDS, now)
    /\ h' = [h EXCEPT ![p].writes = @ + 1, ![p].out = "ok", ![p].pc = "idle"]
    /\ UNCHANGED <<now, ticks, HUBSPOT_CLIENT_ID, stateStore, issuedCount, hist>>

get_hubspot_credentials_for_user(p) ==
    \/ \E user_id \in {None} \cup Owners, state_key \in {None, ForgedState} \cup Issued :
         ResolveStart(p, user_id, state_key)
    \/ ResolveGet(p)
    \/ ResolveRefresh(p)
    \/ ResolveStore(p)

(***************************************************************************)
(* The clock and Redis' expiry.                                            *)
(***************************************************************************)
\* The clock is followed until one state TTL past the credential TTL.
Tick ==
    /\ ticks < MaxTicks
    /\ \E d \in Deltas :
         /\ now + d <= CRED_TTL_SECONDS + STATE_TTL_SECONDS
         /\ now' = now + d
         /\ stateStore' = ExpireKeys(stateStore, now + d)
         /\ credStore' = ExpireKeys(credStore, now + d)
         /\ hist' = [s \in Issued |->
                       IF /\ hist[s].status = "live"
                          /\ stateStore[s].val.created_at + STATE_TTL_SECONDS <= now + d
                       THEN [hist[s] EXCEPT !.status = "expired"]
                       ELSE hist[s]]
    /\ ticks' = ticks + 1
    /\ UNCHANGED <<HUBSPOT_CLIENT_ID, issuedCount, h>>

(***************************************************************************)
(* _call_hubspot_api and _fetch_all_objects                                *)
(***************************************************************************)
\* The statuses of the object-listing endpoint's answers.
ApiStatuses == {200, 401, 500}

\* lines 225-231: what a call of the endpoint raises, if anything
ApiError(status_code) ==
    IF status_code = 401 THEN "Unauthorized"
    ELSE IF status_code >= 400 THEN "ProviderAPIError"
    ELSE "none"

\* A call of _fetch_all_objects.
\*   after, pages, results: the loop's variables
\*   calls: the calls made so far, each with the cursor it sent (None: it sent
\*          none), the results of the page it got and that page's next cursor
FetchIdle ==
    [pc |-> "idle", max_pages |-> 0, after |-> None, pages |-> 0, results |-> <<>>,
     err |-> "none", calls |-> <<>>]

\* lines 240-245
FetchStart(max_pages) == [FetchIdle EXCEPT !.pc = "call", !.max_pages = max_pages]

\* mutant: the cursor of the page is not kept for the next call
FetchStep_NoCursor(f, resp) ==
    IF ApiError(resp.status_code) # "none"
    THEN [f EXCEPT !.pc = "raised", !.err = ApiError(resp.status_code)]
    ELSE LET next_cursor == resp.next
             pages == f.pages + 1
             stop == next_cursor = None \/ pages >= f.max_pages
         IN [f EXCEPT !.results = f.results \o resp.results,
                      !.pages = pages,
                      !.pc = IF stop THEN "done" ELSE "call",
                      !.calls = Append(f.calls, [sent |-> f.after,
                                                 results |-> resp.results,
                                                 next |-> next_cursor])]

\* lines 247-259: one turn of the loop, the endpoint answering resp
\* (resp.next is paging.next.after, None when any part of it is missing)
FetchStep(f, resp) ==
    IF ApiError(resp.status_code) # "none"
    THEN [f EXCEPT !.pc = "raised", !.err = ApiError(resp.status_code)]
    ELSE LET next_cursor == resp.next
             pages == f.pages + 1
             stop == next_cursor = None \/ pages >= f.max_pages
         IN [f EXCEPT !.results = f.results \o resp.results,
                      !.pages = pages,
                      !.after = IF stop THEN f.after ELSE next_cursor,
                      !.pc = IF stop THEN "done" ELSE "call",
                      !.calls = Append(f.calls, [sent |-> f.after,
                                                 results |-> resp.results,
                                                 next |-> next_cursor])]

\* The objects of a page: the next `size` objects of the listing, each named by
\* its place in the listing.
Page(served, size) == [i \in 1..size |-> served + i]

\* The cursors the endpoint may hand out; it may hand out the same one again.
Cursors == {1, 2}

\* The endpoint's answers to a call when it has served `served` objects so far.
FetchResponses(served) ==
    {[status_code |-> st, results |-> <<>>, next |-> None] : st \in ApiStatuses \ {200}} \cup
    {[status_code |-> 200, results |-> Page(served, size), next |-> next] :
        size \in 0..MaxBatch, next \in {None} \cup Cursors}

_fetch_all_objects ==
    /\ fa.pc = "call"
    /\ \E resp \in FetchResponses(Len(fa.results)) : fa' = FetchStep(fa, resp)
    /\ UNCHANGED <<flowVars, rf, li>>

(***************************************************************************)
(* get_items_hubspot                                                       *)
(***************************************************************************)
\* the object types, in the order of the three try blocks
ObjectTypes == <<"contacts", "companies", "deals">>

\* "properties": null in an object of the listing
JsonNull == [null |-> TRUE]

\* The raw objects of the listing. Ids are strings, as HubSpot's are; a property
\* that is "" is one the object does not carry. The n-th object of a listing
\* carries every property when n is odd and none when n is even, or, if not
\* wellFormed, has null for its properties.
RawObject(type, n, wellFormed) ==
    [id |-> ToString(n),
     properties |->
        IF ~wellFormed THEN JsonNull
        ELSE IF type = "contacts"
             THEN IF n % 2 = 1
                  THEN [firstname |-> "Ada", lastname |-> "Byron", email |-> "ada@example.com"]
                  ELSE [firstname |-> "", lastname |-> "", email |-> ""]
        ELSE IF type = "companies"
             THEN IF n % 2 = 1
                  THEN [name |-> "Acme", domain |-> "acme.example.com"]
                  ELSE [name |-> "", domain |-> ""]
        ELSE IF n % 2 = 1
             THEN [dealname |-> "Renewal", amount |-> "100", dealstage |-> "won"]
             ELSE [dealname |-> "", amount |-> "", dealstage |-> ""]]

\* props.get(...) raises AttributeError on it
Malformed(obj) == obj.properties = JsonNull

\* Python's `a or b` on strings
Or(a, b) == IF a # "" THEN a ELSE b

\* f"{first} {last}".strip()
FullName(first, last) ==
    IF first # "" /\ last # "" THEN first \o " " \o last ELSE Or(first, last)

\* lines 279-288
ContactItem(obj) ==
    LET props == obj.properties IN
    [id |-> obj.id,
     title |-> Or(FullName(props.firstname, props.lastname), Or(props.email, obj.id)),
     parameters |-> [email |-> props.email, firstName |-> props.firstname,
                     lastName |-> props.lastname, hubspotId |-> obj.id,
                     objectType |-> "contact"]]

\* lines 297-305
CompanyItem(obj) ==
    LET props == obj.properties IN
    [id |-> obj.id,
     title |-> Or(props.name, Or(props.domain, obj.id)),
     parameters |-> [name |-> props.name, domain |-> props.domain,
                     hubspotId |-> obj.id, objectType |-> "company"]]

\* lines 314-323
DealItem(obj) ==
    LET props == obj.properties IN
    [id |-> obj.id,
     title |-> Or(props.dealname, "Deal " \o obj.id),
     parameters |-> [dealName |-> props.dealname, amount |-> props.amount,
                     dealStage |-> props.dealstage, hubspotId |-> obj.id,
                     objectType |-> "deal"]]

NormalItem(type, obj) ==
    IF type = "contacts" THEN ContactItem(obj)
    ELSE IF type = "companies" THEN CompanyItem(obj)
    ELSE DealItem(obj)

\* lines 291, 308, 326: the synthetic item of a type, carrying str(ex)
ErrorItem(type, message) ==
    [id |-> "error_" \o type,
     title |-> (IF type = "contacts" THEN "Contacts"
                ELSE IF type = "companies" THEN "Companies" ELSE "Deals") \o " fetch error",
     parameters |-> [error |-> message]]

\* the for loop of a try block: every object is normalized and appended in
\* turn; the first malformed one raises, which the except clause answers with
\* the synthetic item, after the ones already appended
NormalizedUntilError(type, objs) ==
    LET bad == {i \in 1..Len(objs) : Malformed(objs[i])} IN
    IF bad = {} THEN [i \in 1..Len(objs) |-> NormalItem(type, objs[i])]
    ELSE LET k == CHOOSE i \in bad : \A j \in bad : i <= j IN
         [i \in 1..(k - 1) |-> NormalItem(type, objs[i])]
             \o <<ErrorItem(type, "AttributeError")>>

\* mutant: a fetch that raises leaves no item
TypeItems_NoErrorItem(type, f) ==
    IF f.pc = "raised" THEN <<>> ELSE NormalizedUntilError(type, f.results)

\* one try block (lines 276-291, 294-308, 311-326): what it appends to items
\* when its fetch has ended as f
TypeItems(type, f) ==
    IF f.pc = "raised" THEN <<ErrorItem(type, f.err)>>
    ELSE NormalizedUntilError(type, f.results)

\* A call of get_items_hubspot.
\*   f: the running call of _fetch_all_objects
\*   seen: per object type done, how its fetch ended and the raw objects it got
\*   req, status: when called by the items endpoint, the request's user and
\*                state parameter, and the status of the response
NoUser == [present |-> FALSE, id |-> None]

NoRequest == [user |-> NoUser, state |-> None]

ListIdle ==
    [pc |-> "idle", out |-> "none", access_token |-> None, items |-> <<>>,
     f |-> FetchIdle, seen |-> <<>>, req |-> NoRequest, status |-> None]

ListRaised(out) == [li EXCEPT !.pc = "raised", !.out = out]

\* mutant: the access token is not tested
ListBegin_NoTokenCheck(key, creds) ==
    /\ credStore' = _redis_setex(credStore, key, creds, CRED_TTL_SECONDS, now)
    /\ li' = [li EXCEPT !.pc = "fetch", !.access_token = creds.access_token,
                        !.f = FetchStart(DEFAULT_MAX_PAGES)]

\* lines 216-217, 269-273: the record is written back; without an access token
\* the call raises, else the first try block starts
ListBegin(key, creds) ==
    /\ credStore' = _redis_setex(credStore, key, creds, CRED_TTL_SECONDS, now)
    /\ li' = IF creds.access_token = None THEN ListRaised("NoAccessToken")
             ELSE [li EXCEPT !.pc = "fetch", !.access_token = creds.access_token,
                             !.f = FetchStart(DEFAULT_MAX_PAGES)]

\* lines 268-273: get_hubspot_credentials_for_user and the access token check
ListStartWith(user_id, state_key) ==
    LET check == ResolveCheck(user_id, state_key)
        key == CredKeyOfIdentifier(user_id, state_key)
        stored == _redis_get(credStore, key, EmptyDict)
        refresh == RefreshCheck(stored, now)
    IN IF check # "pending"
       THEN li' = ListRaised(check) /\ UNCHANGED <<credStore, issuedCount>>
       ELSE IF refresh = "NoRefreshToken"
       THEN li' = ListRaised(refresh) /\ UNCHANGED <<credStore, issuedCount>>
       ELSE IF refresh = "valid"
       THEN ListBegin(key, stored) /\ UNCHANGED issuedCount
       ELSE \E resp \in TokenResponses(issuedCount + 1) :
              IF resp.status_code # 200
              THEN li' = ListRaised("TokenRefresh") /\ UNCHANGED <<credStore, issuedCount>>
              ELSE /\ issuedCount < MaxIssued
                   /\ issuedCount' = issuedCount + 1
                   /\ ListBegin(key, Refreshed(stored, resp.token_data, now))

\* get_items_hubspot called with any identifier
ListStart ==
    /\ li.pc = "idle"
    /\ \E user_id \in {None} \cup Owners, state_key \in {None, 1} :
         ListStartWith(user_id, state_key)
    /\ UNCHANGED <<now, ticks, HUBSPOT_CLIENT_ID, stateStore, h, hist, rf, fa>>

\* The pages the endpoint may serve next when it has served `served` objects of
\* the type: it serves at most MaxObjs objects in all, and no empty page that
\* carries a cursor.
ItemResponses(type, served) ==
    {[status_code |-> st, results |-> <<>>, next |-> None] : st \in ApiStatuses \ {200}} \cup
    {[status_code |-> 200,
      results |-> [i \in 1..Len(wf) |-> RawObject(type, served + i, wf[i])],
      next |-> next] :
        wf \in UNION {[1..size -> BOOLEAN] : size \in 0..MaxBatch}, next \in {None, 1}}

\* lines 276-328: one call of the endpoint by the running try block; when the
\* fetch ends, the block's items are appended and the next block starts
ListFetch ==
    /\ li.pc = "fetch"
    /\ LET type == ObjectTypes[Len(li.seen) + 1] IN
       \E resp \in ItemResponses(type, Len(li.f.results)) :
         /\ resp.status_code = 200 =>
              /\ Len(li.f.results) + Len(resp.results) <= MaxObjs
              /\ resp.results # <<>> \/ resp.next = None
         /\ LET f == FetchStep(li.f, resp)
                seen == Append(li.seen, [type |-> type, err |-> f.err,
                                         objs |-> IF f.pc = "raised" THEN <<>>
                                                  ELSE f.results])
            IN li' = IF f.pc = "call"
                     THEN [li EXCEPT !.f = f]
                     ELSE [li EXCEPT !.items = @ \o TypeItems(type, f),
                                     !.seen = seen,
                                     !.f = IF Len(seen) = Len(ObjectTypes) THEN FetchIdle
                                           ELSE FetchStart(DEFAULT_MAX_PAGES),
                                     !.pc = IF Len(seen) = Len(ObjectTypes) THEN "done"
                                            ELSE "fetch",
                                     !.out = IF Len(seen) = Len(ObjectTypes) THEN "ok"
                                             ELSE @]
    /\ UNCHANGED <<flowVars, rf, fa>>

get_items_hubspot == ListStart \/ ListFetch

(***************************************************************************)
(* _fetch_all_objects on its own, for max_pages from 0 to MaxPagesArg.     *)
(***************************************************************************)
InitFetch ==
    /\ now = 0
    /\ ticks = 0
    /\ HUBSPOT_CLIENT_ID = 1
    /\ stateStore = EmptyStore
    /\ credStore = EmptyStore
    /\ issuedCount = 0
    /\ h = [p \in Procs |-> IdleFrame]
    /\ hist = EmptyStore
    /\ rf = RefreshIdle
    /\ li = ListIdle
    /\ \E max_pages \in 0..MaxPagesArg : fa = FetchStart(max_pages)

NextFetch == _fetch_all_objects

SpecFetch == InitFetch /\ [][NextFetch]_vars

RECURSIVE Concat(_)
\* the pages of the calls, one after the other
Concat(calls) ==
    IF calls = <<>> THEN <<>>
    ELSE Concat(SubSeq(calls, 1, Len(calls) - 1)) \o calls[Len(calls)].results

\* the k-th call is where the loop ends: its page has no next cursor, or it is
\* the max_pages-th call (or a later one)
Last(k) == fa.calls[k].next = None \/ k >= fa.max_pages

\* C6: what _fetch_all_objects returns is the pages it got, one after the other
\* in the order of the calls; its first call sends no cursor and every later
\* call sends the next cursor of the page before it; and it returns at the
\* first call whose page has no next cursor or that is the max_pages-th.
C6_PagesInOrder ==
    /\ fa.pc \in {"call", "done"} =>
         /\ fa.results = Concat(fa.calls)
         /\ Len(fa.calls) = fa.pages
         /\ \A k \in 1..Len(fa.calls) :
              fa.calls[k].sent = IF k = 1 THEN None ELSE fa.calls[k - 1].next
    /\ fa.pc = "call" => \A k \in 1..Len(fa.calls) : ~Last(k)
    /\ fa.pc = "done" =>
         /\ Len(fa.calls) >= 1
         /\ Last(Len(fa.calls))
         /\ \A k \in 1..(Len(fa.calls) - 1) : ~Last(k)

\* the run of the repository's test: two objects and a cursor, then one object
\* and no cursor, under a max_pages that is not reached
C6_Witness ==
    /\ fa.pc = "done"
    /\ fa.max_pages > 2
    /\ Len(fa.calls) = 2
    /\ Len(fa.calls[1].results) = 2
    /\ fa.calls[1].next # None
    /\ Len(fa.calls[2].results) = 1
    /\ fa.calls[2].next = None
    /\ fa.results = <<1, 2, 3>>

\* C7: for every max_pages, _fetch_all_objects makes at most max_pages calls of
\* the object-listing endpoint.
C7_AtMostMaxPages == fa.pages <= fa.max_pages /\ Len(fa.calls) <= fa.max_pages

(***************************************************************************)
(* The OAuth flow: properties.                                             *)
(***************************************************************************)
Rejections == {"ProviderDenied", "InvalidRequest", "InvalidState"}

\* C1: once a callback has stored credentials for a state token, every callback
\* validated later with that token is rejected before any token exchange or
\* write, whatever code it carries, and with the invalid-or-expired-state error
\* when it is well formed (a code, the state, no error parameter).
C1_ReplayRejected ==
    \A p \in Procs :
        (h[p].op = "callback" /\ h[p].st = "completed") =>
            /\ h[p].out \in Rejections
            /\ h[p].wf => h[p].out = "InvalidState"
            /\ h[p].posts = 0
            /\ h[p].writes = 0

C1_Witness ==
    \E p \in Procs :
        /\ h[p].op = "callback"
        /\ h[p].st = "completed"
        /\ h[p].wf
        /\ h[p].out = "InvalidState"

C2_Rejected ==
    \A p \in Procs :
        (h[p].op = "callback" /\ h[p].st # "live") =>
            /\ h[p].out \in Rejections
            /\ h[p].wf => h[p].out = "InvalidState"
            /\ h[p].posts = 0
            /\ h[p].writes = 0

C2_NothingTouched ==
    \A p \in Procs :
        (h'[p] # h[p] /\ h'[p].op = "callback" /\ h'[p].st # "live") =>
            UNCHANGED <<credStore, stateStore, issuedCount>>

\* C2: a callback whose state token was never issued, was already consumed, or
\* has outlived its 300 s TTL when it is validated is rejected (with the
\* invalid-or-expired-state error when it is well formed), calls the token
\* endpoint not once and leaves every key of the store as it was; so a
\* credential record is written only for a state record that existed at
\* validation.
C2_OnlyLiveStates == []C2_Rejected /\ [][C2_NothingTouched]_vars

C2_Witness ==
    \E p \in Procs :
        /\ h[p].op = "callback"
        /\ h[p].st = "expired"
        /\ h[p].wf
        /\ h[p].out = "InvalidState"

C8_Errors ==
    \A p \in Procs :
        h[p].op = "resolve" =>
            /\ ~h[p].wf =>
                 h[p].out = "IdentifierRequired" /\ h[p].posts = 0 /\ h[p].writes = 0
            /\ (h[p].wf /\ ~h[p].found) =>
                 h[p].out = "NotFound" /\ h[p].posts = 0 /\ h[p].writes = 0

C8_NothingTouched ==
    \A p \in Procs :
        (h'[p] # h[p] /\ h'[p].op = "resolve" /\ (~h'[p].wf \/ ~h'[p].found)) =>
            UNCHANGED <<credStore, stateStore, issuedCount>>

\* C8: a credential lookup with neither user_id nor state_key fails with the
\* identifier-required error, one with an identifier under whose key no record
\* is stored fails with the not-found error; neither calls the provider nor
\* changes the store.
C8_LookupErrors == []C8_Errors /\ [][C8_NothingTouched]_vars

C8_Witness ==
    \E p \in Procs :
        /\ h[p].op = "resolve"
        /\ h[p].wf
        /\ ~h[p].found
        /\ h[p].out = "NotFound"
        /\ credStore # EmptyStore

\* C9: a successful callback has written exactly one credential record, under
\* the owner key of the user id that authorize_hubspot stored with the state
\* when it stored one, and under the flow key of the state otherwise.
C9_KeyOfTheFlow ==
    \A p \in Procs :
        (h[p].op = "callback" /\ h[p].out = "ok") =>
            /\ h[p].writes = 1
            /\ h[p].key = IF hist[h[p].state].owner # None
                          THEN UserKey(hist[h[p].state].owner)
                          ELSE FlowKey(h[p].state)

\* C10: after authorize_hubspot and a successful callback with the state it
\* issued, and until the credential TTL has elapsed, a credential lookup with the
\* flow's owner (or, for a flow started without one, with the state as flow id)
\* finds the record, and what it returns carries an access token that the
\* provider issued.
C10_RoundTrip ==
    \A p \in Procs :
        (h[p].op = "resolve" /\ h[p].due) =>
            /\ h[p].out \notin {"NotFound", "IdentifierRequired"}
            /\ h[p].out = "ok" => h[p].stored.access_token \in 1..issuedCount

(***************************************************************************)
(* The OAuth flow, one worker process.                                     *)
(***************************************************************************)
Init ==
    /\ now = 0
    /\ ticks = 0
    /\ HUBSPOT_CLIENT_ID \in {None, 1}
    /\ stateStore = EmptyStore
    /\ credStore = EmptyStore
    /\ issuedCount = 0
    /\ h = [p \in Procs |-> IdleFrame]
    /\ hist = EmptyStore
    /\ rf = RefreshIdle
    /\ fa = FetchIdle
    /\ li = ListIdle

Next ==
    \/ (\E user_id \in {None} \cup Owners : authorize_hubspot(1, user_id)) /\ UNCHANGED <<rf, fa, li>>
    \/ oauth2callback_hubspot(1) /\ UNCHANGED <<rf, fa, li>>
    \/ get_hubspot_credentials_for_user(1) /\ UNCHANGED <<rf, fa, li>>
    \/ Tick /\ UNCHANGED <<rf, fa, li>>

Spec == Init /\ [][Next]_vars

(***************************************************************************)
(* _refresh_access_token_if_needed on its own: a record that is expired,   *)
(* or whose expiry is 0, 59, 60, 61 or 1800 seconds ahead, with or without *)
(* a refresh token.                                                        *)
(***************************************************************************)
RefreshRecords(t) ==
    {[access_token |-> 1, refresh_token |-> rt, expires_at |-> at, raw |-> EmptyTokenData] :
        rt \in {None, 1},
        at \in {0} \cup {t + m : m \in {0, REFRESH_MARGIN - 1, REFRESH_MARGIN,
                                        REFRESH_MARGIN + 1, 1800}}}

InitRefresh ==
    /\ now = 100
    /\ ticks = 0
    /\ HUBSPOT_CLIENT_ID = 1
    /\ stateStore = EmptyStore
    /\ credStore = EmptyStore
    /\ issuedCount = 0
    /\ h = [p \in Procs |-> IdleFrame]
    /\ hist = EmptyStore
    /\ fa = FetchIdle
    /\ li = ListIdle
    /\ \E stored \in RefreshRecords(now) :
         rf = [RefreshIdle EXCEPT !.stored = stored, !.before = stored, !.first = stored]

NextRefresh == _refresh_access_token_if_needed

SpecRefresh == InitRefresh /\ [][NextRefresh]_vars

RefreshDue == rf.pc # "call" /\ rf.before.expires_at - rf.t0 < REFRESH_MARGIN

\* C4 as stated: a record with expires_at - now >= 60, the value 60 included, is
\* returned unchanged and without a call of the token endpoint.
C4_AsStated ==
    (rf.pc # "call" /\ rf.before.expires_at - rf.t0 >= REFRESH_MARGIN) =>
        rf.pc = "done" /\ rf.out = "ok" /\ rf.stored = rf.before /\ rf.posts = 0

\* C4, amended: a record with expires_at - now > 60 is returned unchanged and
\* without a call of the token endpoint (at exactly 60 the refresh runs).
C4_StillValid ==
    (rf.pc # "call" /\ rf.before.expires_at - rf.t0 > REFRESH_MARGIN) =>
        rf.pc = "done" /\ rf.out = "ok" /\ rf.stored = rf.before /\ rf.posts = 0

C4_Witness ==
    /\ rf.pc = "done"
    /\ rf.before.expires_at - rf.t0 = REFRESH_MARGIN + 1
    /\ rf.out = "ok"
    /\ rf.stored = rf.before
    /\ rf.posts = 0

\* C5 as stated: a record with expires_at - now < 60 and a refresh token costs
\* exactly one refresh call, and when that call succeeds the record returned
\* has a strictly greater expires_at, whatever expires_in the response carries.
C5_AsStated ==
    (rf.pc = "done" /\ RefreshDue /\ rf.before.refresh_token # None) =>
        /\ rf.posts = 1
        /\ rf.out = "ok" => rf.stored.expires_at > rf.before.expires_at

\* C5, amended: such a record costs exactly one refresh call, and when that call
\* succeeds the record returned has expires_at = the time of the answer plus
\* the response's expires_in (0 when it carries none), which is strictly
\* greater than the expires_at before whenever expires_in is at least 60.
C5_NewExpiry ==
    (rf.pc = "done" /\ RefreshDue /\ rf.before.refresh_token # None) =>
        /\ rf.posts = 1
        /\ rf.out = "ok" =>
             /\ rf.stored.expires_at = rf.t1 + rf.token_data.expires_in
             /\ rf.token_data.expires_in >= REFRESH_MARGIN =>
                  rf.stored.expires_at > rf.before.expires_at

C5_Witness ==
    /\ rf.pc = "done"
    /\ RefreshDue
    /\ rf.before.refresh_token # None
    /\ rf.posts = 1
    /\ rf.out = "ok"
    /\ rf.token_data.expires_in = REFRESH_MARGIN
    /\ rf.stored.expires_at > rf.before.expires_at

(***************************************************************************)
(* get_items_hubspot over a store that holds no record, or one record under *)
(* the owner key or the flow key: valid, expired with or without a refresh *)
(* token, or without an access token.                                      *)
(***************************************************************************)
ItemRecords ==
    {[access_token |-> 1, refresh_token |-> 1, expires_at |-> 1800, raw |-> EmptyTokenData],
     [access_token |-> 1, refresh_token |-> 1, expires_at |-> 0, raw |-> EmptyTokenData],
     [access_token |-> 1, refresh_token |-> None, expires_at |-> 0, raw |-> EmptyTokenData],
     [access_token |-> None, refresh_token |-> None, expires_at |-> 1800, raw |-> EmptyTokenData]}

ItemStores ==
    {EmptyStore} \cup
    {_redis_setex(EmptyStore, UserKey(1), rec, CRED_TTL_SECONDS, 0) : rec \in ItemRecords} \cup
    {_redis_setex(EmptyStore, FlowKey(1), rec, CRED_TTL_SECONDS, 0) :
        rec \in {r \in ItemRecords : r.expires_at # 0 /\ r.access_token # None}}

InitItems ==
    /\ now = 0
    /\ ticks = 0
    /\ HUBSPOT_CLIENT_ID = 1
    /\ stateStore = EmptyStore
    /\ credStore \in ItemStores
    /\ issuedCount = 1
    /\ h = [p \in Procs |-> IdleFrame]
    /\ hist = EmptyStore
    /\ rf = RefreshIdle
    /\ fa = FetchIdle
    /\ li = ListIdle

NextItems == get_items_hubspot

SpecItems == InitItems /\ [][NextItems]_vars

\* the try block of the k-th type met no malformed object
Clean(k) == \A i \in 1..Len(li.seen[k].objs) : ~Malformed(li.seen[k].objs[i])

\* what C3 says the k-th type contributes: the synthetic item when its fetch
\* raised, else the normalized items of all its objects
Contribution(k) ==
    LET s == li.seen[k] IN
    IF s.err # "none"
    THEN <<[id |-> "error_" \o ObjectTypes[k],
            title |-> <<"Contacts", "Companies", "Deals">>[k] \o " fetch error",
            parameters |-> [error |-> s.err]]>>
    ELSE [i \in 1..Len(s.objs) |-> NormalItem(ObjectTypes[k], s.objs[i])]

RECURSIVE Contributions(_)
Contributions(k) == IF k = 0 THEN <<>> ELSE Contributions(k - 1) \o Contribution(k)

\* C3: whichever of the three fetches raise (a 401 or another error status),
\* get_items_hubspot does not raise once it has its access token, and what it
\* returns is, in the order contacts, companies, deals, the one synthetic item
\* error_<type> of each type whose fetch raised and the normalized items of all
\* objects of each other type (every object of those being well formed).
C3_FailuresIsolated ==
    /\ li.pc = "raised" => li.items = <<>> /\ li.seen = <<>> /\ li.f = FetchIdle
    /\ li.pc = "done" => Len(li.seen) = Len(ObjectTypes)
    /\ (\A k \in 1..Len(li.seen) : Clean(k)) =>
         /\ li.items = Contributions(Len(li.seen))
         /\ \A k \in 1..Len(li.seen) :
              Cardinality({i \in 1..Len(li.items) :
                              li.items[i].id = "error_" \o ObjectTypes[k]})
                  = IF li.seen[k].err # "none" THEN 1 ELSE 0

\* the companies fetch raised a 401, the contacts and the deals came through
C3_Witness ==
    /\ li.pc = "done"
    /\ li.seen[1].err = "none"
    /\ li.seen[2].err = "Unauthorized"
    /\ li.seen[3].err = "none"
    /\ Len(li.items) = 5
    /\ li.items[1].id = "1"
    /\ li.items[3].id = "error_companies"
    /\ li.items[4].id = "1"
    /\ \A k \in 1..3 : Clean(k)

(***************************************************************************)
(* The credential record under resolve: properties.                        *)
(***************************************************************************)
\* a step of the credential lookup of process p
ResolveStep(p) == h'[p] # h[p] /\ h'[p].op = "resolve"

C11_FailureLeavesStore ==
    \A p \in Procs :
        (ResolveStep(p) /\ h[p].pc # "rs_store") => UNCHANGED credStore

C11_SuccessWritesBoth ==
    \A p \in Procs :
        /\ (ResolveStep(p) /\ h[p].pc = "rs_post" /\ h'[p].pc = "rs_store") =>
             /\ issuedCount' = issuedCount + 1
             /\ h'[p].stored.access_token = issuedCount'
             /\ \E e \in ExpiresIn : h'[p].stored.expires_at = now + e
        /\ (ResolveStep(p) /\ h[p].pc = "rs_store") =>
             /\ h[p].key \in DOMAIN credStore'
             /\ credStore'[h[p].key].val = h[p].stored
             /\ \A k \in DOMAIN credStore \ {h[p].key} :
                  k \in DOMAIN credStore' /\ credStore'[k] = credStore[k]

C11_FailedCalls ==
    \A p \in Procs :
        (h[p].op = "resolve" /\ h[p].out \in {"NoRefreshToken", "TokenRefresh"}) =>
            h[p].writes = 0

\* C11: no step of a credential lookup but its final write changes the store, so
\* a lookup whose refresh fails (no refresh token, or a refusal of the provider)
\* leaves the record as it was; a successful refresh puts the new access token
\* and the new expires_at in the record together, and the one write stores
\* that record whole.
C11_NeverPartial ==
    []C11_FailedCalls /\ [][C11_FailureLeavesStore /\ C11_SuccessWritesBoth]_vars

\* a refresh was refused and the stale record is still stored
C11_Witness ==
    \E p \in Procs :
        /\ h[p].op = "resolve"
        /\ h[p].out = "TokenRefresh"
        /\ h[p].posts = 1
        /\ h[p].key \in DOMAIN credStore
        /\ ~StillValid(credStore[h[p].key].val, now)

\* C13: the last step of every successful credential lookup, refreshed or not,
\* writes the record it returns under the key it read, with the TTL set to the
\* full CRED_TTL_SECONDS from now; and no lookup succeeds without that write.
C13_Repersisted ==
    [][\A p \in Procs :
         /\ (ResolveStep(p) /\ h[p].pc = "rs_store") =>
              /\ h'[p].out = "ok"
              /\ h'[p].stored = h[p].stored
              /\ h'[p].key = h[p].key
              /\ h[p].key \in DOMAIN credStore'
              /\ credStore'[h[p].key] =
                     [val |-> h'[p].stored, exp |-> now + CRED_TTL_SECONDS]
         /\ (ResolveStep(p) /\ h'[p].out = "ok") => h[p].pc = "rs_store"]_vars

\* a lookup that met a valid record, later than the record's first write, has
\* restarted its TTL
C13_Witness ==
    \E p \in Procs :
        /\ h[p].op = "resolve"
        /\ h[p].out = "ok"
        /\ h[p].posts = 0
        /\ now > 0
        /\ h[p].key \in DOMAIN credStore
        /\ credStore[h[p].key] = [val |-> h[p].stored, exp |-> now + CRED_TTL_SECONDS]

(***************************************************************************)
(* The refresh token over a sequence of refreshes.                         *)
(***************************************************************************)
RECURSIVE LastCarried(_, _)
\* the last refresh token that is not None in carried, or original if none is
LastCarried(carried, original) ==
    IF carried = <<>> THEN original
    ELSE IF carried[Len(carried)] # None THEN carried[Len(carried)]
    ELSE LastCarried(SubSeq(carried, 1, Len(carried) - 1), original)

\* C12: after any number of successful refreshes the record's refresh token is
\* the one of the last response that carried one, or the original one if none
\* did; every such response, with or without a refresh token, has put its
\* access token in the record.
C12_RefreshTokenKept ==
    /\ rf.stored.refresh_token = LastCarried(rf.carried, rf.first.refresh_token)
    /\ rf.carried # <<>> => rf.stored.access_token = Len(rf.carried) + 1
    /\ rf.carried = <<>> => rf.stored = rf.first

\* a response that carried a refresh token, then one that carried none
C12_Witness ==
    /\ rf.pc = "done"
    /\ rf.out = "ok"
    /\ Len(rf.carried) = 2
    /\ rf.carried[1] = 2
    /\ rf.carried[2] = None
    /\ rf.stored.refresh_token = 2
    /\ rf.stored.access_token = 3

(***************************************************************************)
(* Two worker processes serving one user: the user's credential record has *)
(* expired (it was stored 2000 s ago, for a token good for 1800 s), and the *)
(* user may start a new flow. Well-formed requests only; the clock stands  *)
(* still.                                                                  *)
(***************************************************************************)
InitConc ==
    /\ now = 2000
    /\ ticks = 0
    /\ HUBSPOT_CLIENT_ID = 1
    /\ stateStore = EmptyStore
    /\ credStore = _redis_setex(EmptyStore, UserKey(1),
                                ToStore([access_token |-> 1, refresh_token |-> 1,
                                         expires_in |-> 1800], 0),
                                CRED_TTL_SECONDS, 0)
    /\ issuedCount = 1
    /\ h = [p \in Procs |-> IdleFrame]
    /\ hist = EmptyStore
    /\ rf = RefreshIdle
    /\ fa = FetchIdle
    /\ li = ListIdle

NextConc ==
    \E p \in Procs :
        \/ authorize_hubspot(p, 1) /\ UNCHANGED <<rf, fa, li>>
        \/ (\E state \in Issued : CallbackValidate(p, 1, state, None)) /\ UNCHANGED <<rf, fa, li>>
        \/ CallbackGet(p) /\ UNCHANGED <<rf, fa, li>>
        \/ CallbackDelete(p) /\ UNCHANGED <<rf, fa, li>>
        \/ CallbackExchange(p) /\ UNCHANGED <<rf, fa, li>>
        \/ CallbackStore(p) /\ UNCHANGED <<rf, fa, li>>
        \/ ResolveStart(p, 1, None) /\ UNCHANGED <<rf, fa, li>>
        \/ ResolveGet(p) /\ UNCHANGED <<rf, fa, li>>
        \/ ResolveRefresh(p) /\ UNCHANGED <<rf, fa, li>>
        \/ ResolveStore(p) /\ UNCHANGED <<rf, fa, li>>

SpecConc == InitConc /\ [][NextConc]_vars

\* C14: whenever no handler is running, the record stored for the user carries
\* the access token of the last token pair the provider issued for that user.
C14_LastIssuedStored ==
    ((\A p \in Procs : h[p].pc = "idle") /\ UserKey(1) \in DOMAIN credStore) =>
        credStore[UserKey(1)].val.access_token = issuedCount

\* C15: of the callbacks that carry one state token, at most one passes the
\* state validation.
C15_ConsumedOnce ==
    \A s \in Issued :
        Cardinality({p \in Procs : h[p].op = "callback" /\ h[p].state = s}) <= 1

(***************************************************************************)
(* get_items_hubspot: errors inside and before the per-type blocks.        *)
(***************************************************************************)
\* the objectType of the normal items of the k-th type
Singular(k) == <<"contact", "company", "deal">>[k]

\* the places in items of the normal items of the k-th type
NormalItemsOf(k) ==
    {i \in 1..Len(li.items) :
        /\ "objectType" \in DOMAIN li.items[i].parameters
        /\ li.items[i].parameters.objectType = Singular(k)}

\* the places in items of the synthetic items of the k-th type
ErrorItemsOf(k) ==
    {i \in 1..Len(li.items) :
        /\ li.items[i].id = "error_" \o ObjectTypes[k]
        /\ DOMAIN li.items[i].parameters = {"error"}}

\* C16: a type whose processing met an error, in its fetch or while an object
\* was normalized, contributes exactly one item, the synthetic one, and no
\* normal item.
C16_ErrorItemOnly ==
    \A k \in 1..Len(li.seen) :
        (li.seen[k].err # "none" \/ ~Clean(k)) =>
            /\ Cardinality(ErrorItemsOf(k)) = 1
            /\ NormalItemsOf(k) = {}

ResolutionErrors ==
    {"IdentifierRequired", "NotFound", "NoRefreshToken", "TokenRefresh", "NoAccessToken"}

C18_State ==
    /\ li.pc = "raised" =>
         /\ li.out \in ResolutionErrors
         /\ li.items = <<>>
         /\ li.seen = <<>>
         /\ li.f = FetchIdle
    /\ li.pc \in {"fetch", "done"} =>
         /\ li.access_token # None
         /\ li.out \in {"none", "ok"}
    /\ li.pc = "done" => li.out = "ok" /\ Len(li.seen) = Len(ObjectTypes)

C18_Step ==
    /\ li.pc \in {"fetch", "done"} => li'.pc \in {"fetch", "done"}
    /\ (li.pc = "idle" /\ li'.pc = "fetch") =>
         \E k \in DOMAIN credStore' :
            /\ k \in DOMAIN credStore
            /\ credStore'[k].val.access_token = li'.access_token
            /\ StillValid(credStore'[k].val, now)
    /\ (li.pc = "idle" /\ li' # li /\ credStore = EmptyStore) => li'.pc = "raised"

\* C18: get_items_hubspot raises only out of the credential lookup or for want
\* of an access token, and then it has called the object-listing endpoint not
\* once and holds no item; the first fetch starts only with the access token
\* of a stored, valid record, and from then on the call never raises and ends
\* with a sequence of items.
C18_FailsOnlyBefore == []C18_State /\ [][C18_Step]_vars

\* the record found has no access token
C18_Witness ==
    /\ li.pc = "raised"
    /\ li.out = "NoAccessToken"
    /\ credStore # EmptyStore

(***************************************************************************)
(* oauth2callback_hubspot: the order of its checks, and a failed exchange. *)
(***************************************************************************)
C19_Order ==
    \A code \in {None, 1}, state \in {None, ForgedState} \cup Issued, error \in {None, 1} :
        /\ error # None => CallbackCheck(code, state, error) = "ProviderDenied"
        /\ (error = None /\ (code = None \/ state = None)) =>
               CallbackCheck(code, state, error) = "InvalidRequest"

C19_NotConsumed ==
    \A p \in Procs :
        (/\ h'[p] # h[p]
         /\ h'[p].op = "callback"
         /\ h'[p].out \in {"ProviderDenied", "InvalidRequest"}) =>
            /\ UNCHANGED <<stateStore, credStore, issuedCount, hist>>
            /\ \A s \in DOMAIN stateStore : (CallbackCheck(1, s, None) = "pending")'

\* C19: a callback with an error parameter is answered with the provider-denied
\* error whatever code and state it carries, one without error but without
\* code or state with the invalid-request error; neither changes the store, so
\* that every state record is still there and a well-formed callback carrying
\* it passes the validation.
C19_ChecksInOrder == []C19_Order /\ [][C19_NotConsumed]_vars

\* a callback with an error parameter and a live state was denied, and the
\* state record is still stored
C19_Witness ==
    \E p \in Procs :
        /\ h[p].op = "callback"
        /\ h[p].out = "ProviderDenied"
        /\ h[p].st = "live"
        /\ \E s \in DOMAIN stateStore :
              hist[s].status = "live" /\ CallbackCheck(1, s, None) = "pending"

C20_State ==
    /\ \A p \in Procs :
         /\ h[p].pc \in {"cb_post", "cb_store"} => h[p].state \notin DOMAIN stateStore
         /\ (h[p].op = "callback" /\ h[p].out = "TokenExchange") =>
              /\ h[p].posts = 1
              /\ h[p].writes = 0
              /\ h[p].state \notin DOMAIN stateStore
    /\ \A s \in Issued :
         hist[s].status = "consumed" =>
             \A code \in {1} : CallbackCheck(code, s, None) = "InvalidState"

C20_Step ==
    \A p \in Procs :
        (h'[p] # h[p] /\ h'[p].op = "callback" /\ h'[p].out = "TokenExchange") =>
            /\ h[p].pc = "cb_post"
            /\ UNCHANGED <<credStore, stateStore>>

\* C20: the state record is deleted before the token exchange; a callback whose
\* exchange fails ends with the token-exchange error, has written no credential
\* record, and its state record is gone, so that every later callback with
\* that state is answered with the invalid-or-expired-state error.
C20_StrandedFlow == []C20_State /\ [][C20_Step]_vars

C20_Witness ==
    \E p \in Procs :
        /\ h[p].op = "callback"
        /\ h[p].out = "TokenExchange"
        /\ hist[h[p].state].status = "consumed"
        /\ credStore = EmptyStore
        /\ CallbackCheck(1, h[p].state, None) = "InvalidState"

(***************************************************************************)
(* The items endpoint (api/integrations.py), as its handler runs once the  *)
(* router module is loaded.                                                *)
(***************************************************************************)
\* request.state.user: none, a user object with an id, or one without
Users == {NoUser, [present |-> TRUE, id |-> 1], [present |-> TRUE, id |-> None]}

\* lines 7-15: auth.deps is not part of the repository, so the dependency is
\* the fallback, which raises 401 when request.state.user is missing
get_current_user(user) == IF ~user.present THEN "NotAuthenticated" ELSE "ok"

\* a request GET /api/integrations/items/hubspot?state=<state> arrives
ItemsRequest ==
    /\ li.pc = "idle"
    /\ \E user \in Users, state \in {None, 1} :
         li' = [ListIdle EXCEPT !.pc = "api", !.req = [user |-> user, state |-> state]]
    /\ UNCHANGED <<flowVars, rf, fa>>

\* lines 28-39: the dependency, then the call of get_items_hubspot with the
\* user's id or else with the state
ItemsDispatch ==
    /\ li.pc = "api"
    /\ IF get_current_user(li.req.user) # "ok"
       THEN /\ li' = [li EXCEPT !.pc = "responded", !.out = get_current_user(li.req.user),
                                !.status = 401]
            /\ UNCHANGED <<credStore, issuedCount>>
       ELSE LET user_id == li.req.user.id IN
            IF user_id # None THEN ListStartWith(user_id, None)
            ELSE IF li.req.state # None THEN ListStartWith(None, li.req.state)
            ELSE li' = ListRaised("NoIdentity") /\ UNCHANGED <<credStore, issuedCount>>
    /\ UNCHANGED <<now, ticks, HUBSPOT_CLIENT_ID, stateStore, h, hist, rf, fa>>

\* lines 40-42: the items as a JSON array, or any exception as a 400
ItemsRespond ==
    /\ li.pc \in {"done", "raised"}
    /\ li' = [li EXCEPT !.pc = "responded", !.status = IF li.pc = "done" THEN 200 ELSE 400]
    /\ UNCHANGED <<flowVars, rf, fa>>

items_hubspot == ItemsRequest \/ ItemsDispatch \/ ListFetch \/ ItemsRespond

InitApi == InitItems

NextApi == items_hubspot

SpecApi == InitApi /\ [][NextApi]_vars

\* a record with an access token that is not due for refresh is stored under key
Usable(key) ==
    /\ key \in DOMAIN credStore
    /\ credStore[key].val.access_token # None
    /\ StillValid(credStore[key].val, now)

\* the response is the list of the items, made with the access token stored
\* under key
Served(key) ==
    /\ li.status = 200
    /\ Len(li.seen) = Len(ObjectTypes)
    /\ li.access_token = credStore[key].val.access_token

\* C17: a request of an authenticated user whose credentials are stored is
\* answered with that user's items, and a request without a user but with a
\* state parameter for which flow credentials are stored is answered with that
\* flow's items.
C17_ServesBoth ==
    li.pc = "responded" =>
        /\ (li.req.user.id # None /\ Usable(UserKey(li.req.user.id))) =>
               Served(UserKey(li.req.user.id))
        /\ (~li.req.user.present /\ li.req.state # None /\ Usable(FlowKey(li.req.state))) =>
               Served(FlowKey(li.req.state))

\* the part of C17 about authenticated users, which holds
C17_OwnerServed ==
    (li.pc = "responded" /\ li.req.user.id # None /\ Usable(UserKey(li.req.user.id))) =>
        Served(UserKey(li.req.user.id))

====
